---- MODULE Spec2Model ----
(***************************************************************************)
(* Model of the daily task CLI (src/main.go): the persisted task store,    *)
(* the task lifecycle commands (add, addt, ls, lst, status, next, finish,  *)
(* stop, delete) and the daily capacity calculator.                        *)
(*                                                                         *)
(* Dates are day numbers (clock \div SecondsPerDay stands for the          *)
(* "2006-01-02" key of the local date); the clock is time.Now().Unix().    *)
(* Text typed at a prompt is a record: a word, a decimal numeral (the      *)
(* strings strconv.Atoi parses), or a key error.                           *)
(* A key error is a key (Ctrl-C) that ends the prompt with an error.       *)
(* A command runs at one instant of the clock.  Each command is an         *)
(* operator from the store, the clock and what is typed to the store it    *)
(* saves and the way it ends; its action applies it to the state.          *)
(*   data         the task store (tasks.yaml): day -> sequence of tasks    *)
(*   clock        time.Now().Unix()                                        *)
(*   last         the last command run and how it ended                    *)
(*   minutesLeft  the remaining minutes of the day last computed           *)
(*   shown        the figures ls / lst last printed above the task list     *)
(*   procs        the invocations that run side by side on the same file,   *)
(*                each between its loadTasks and its saveTasks              *)
(***************************************************************************)
EXTENDS Integers, Sequences, FiniteSets, TLC

VARIABLES data, clock, last, minutesLeft, shown, procs

vars == <<data, clock, last, minutesLeft, shown, procs>>

----------------------------------------------------------------------------
(* Bounds of the model *)

\* add and addt create a task while the store holds fewer tasks than this.
MaxTasks == 2
\* Number of clock advances within one day.
MaxTicks == 1
\* Seconds the clock advances in one Tick.
TickSeconds == 90
\* Tasks in a bucket whose figures are printed.
MaxShown == 2
\* Invocations running side by side on the same file.
MaxProcs == 2
MaxRollovers == 1

----------------------------------------------------------------------------
(* Program constants *)

maxDailyMinutes == 480
FullDayMinutes == 480
AfternoonMinutes == 240
SecondsPerMinute == 60

SecondsPerDay == 24 * 60 * 60
ClockOfDay(h, m) == (h * 60 + m) * 60
\* The instant the model's clock starts from: 09:00:00 of the day after the
\* epoch's (a task's StartedAt is 0 only when no timer runs).
StartClock == SecondsPerDay + ClockOfDay(9, 0)
FirstDay == StartClock \div SecondsPerDay

\* The buckets of the store: the days the clock reaches and the day after
\* the last of them.
Days == FirstDay .. (FirstDay + MaxRollovers + 1)

----------------------------------------------------------------------------
(* Text typed at a prompt *)

Word(w) == [kind |-> "word", w |-> w, n |-> 0]
Numeral(n) == [kind |-> "num", w |-> "", n |-> n]
\* A key that ends a prompt with the error e instead of a value.
KeyError(e) == [kind |-> "key", w |-> e, n |-> 0]

\* strconv.Itoa: the decimal numeral of n.
Itoa(n) == Numeral(n)
\* strconv.Atoi: the value of a decimal numeral; 0 and an error otherwise.
Atoi(s) == IF s.kind = "num" THEN [val |-> s.n, err |-> ""]
                             ELSE [val |-> 0, err |-> "syntax"]

\* promptui's Prompt.Run and Select.Run: a key error ends the prompt with
\* that error, anything else is the value entered or chosen.
PromptRun(input) ==
    IF input.kind = "key" THEN [val |-> Word(""), err |-> input.w]
                          ELSE [val |-> input, err |-> ""]

promptWithCursor(input, defaultVal) ==
    LET r == PromptRun(input)
    IN IF r.err = "" /\ r.val = Word("q") /\ defaultVal # Word("q")
       THEN [val |-> Word(""), err |-> "q"]
       ELSE r

\* The test every command applies to a prompt error: return nil, no write.
IsAbort(err) == err = "interrupt" \/ err = "q"

----------------------------------------------------------------------------
(* Tasks and the store *)

Statuses == {"pending", "started", "done", "cancelled"}

Task(title, estimated, actual, status, startedAt) ==
    [Title |-> title, Estimated |-> estimated, Actual |-> actual,
     Status |-> status, StartedAt |-> startedAt]

NoTask == Task(Word(""), 0, 0, "", 0)

\* The key stays the date of the first day.
todayKeyFirstDay(now) == FirstDay

todayKey(now) == now \div SecondsPerDay
tomorrowKey(now) == todayKey(now) + 1
dayKey(now, tommorow) == IF tommorow THEN tomorrowKey(now) ELSE todayKey(now)

\* Go's integer division truncates toward zero.
TruncDiv(a, b) == IF a >= 0 THEN a \div b ELSE -((-a) \div b)

RECURSIVE SumLen(_, _)
SumLen(d, S) ==
    IF S = {} THEN 0
    ELSE LET x == CHOOSE y \in S : TRUE IN Len(d[x]) + SumLen(d, S \ {x})

\* The number of tasks the store holds, over all its buckets.
StoredTasks(d) == SumLen(d, DOMAIN d)

\* Off by one: the element after the one addressed is removed.
RemoveAfter(s, i) ==
    [k \in 1 .. (Len(s) - 1) |-> IF k < i + 1 THEN s[k] ELSE s[k + 1]]

\* append(tasks[:i], tasks[i+1:]...) with i counted from 1.
RemoveAt(s, i) == [k \in 1 .. (Len(s) - 1) |-> IF k < i THEN s[k] ELSE s[k + 1]]

At(s, i) == s[i + 1]

\* The elapsed time rounded up to the next minute instead of down.
elapsedMinutesRoundedUp(now, startedAt) ==
    TruncDiv(now - startedAt + SecondsPerMinute - 1, SecondsPerMinute)

\* int(time.Now().Unix()-t.StartedAt) / 60
elapsedMinutes(now, startedAt) == TruncDiv(now - startedAt, SecondsPerMinute)

\* The elapsed time is settled but the timer is left running.
updateTaskKeepsTimer(t, now, status) ==
    CASE status = "started" ->
           [t EXCEPT !.StartedAt = now, !.Status = "started"]
      [] status \in {"done", "cancelled", "pending"} ->
           IF t.StartedAt # 0
           THEN [t EXCEPT !.Actual = @ + elapsedMinutes(now, t.StartedAt),
                          !.Status = status]
           ELSE [t EXCEPT !.Status = status]
      [] OTHER -> [t EXCEPT !.Status = status]

\* The elapsed time replaces the time worked instead of adding to it.
updateTaskOverwritesActual(t, now, status) ==
    CASE status = "started" ->
           [t EXCEPT !.StartedAt = now, !.Status = "started"]
      [] status \in {"done", "cancelled", "pending"} ->
           IF t.StartedAt # 0
           THEN [t EXCEPT !.Actual = elapsedMinutes(now, t.StartedAt),
                          !.StartedAt = 0, !.Status = status]
           ELSE [t EXCEPT !.Status = status]
      [] OTHER -> [t EXCEPT !.Status = status]

\* A task set back to pending is not settled and keeps its timer.
updateTaskPendingKeepsTimer(t, now, status) ==
    CASE status = "started" ->
           [t EXCEPT !.StartedAt = now, !.Status = "started"]
      [] status \in {"done", "cancelled"} ->
           IF t.StartedAt # 0
           THEN [t EXCEPT !.Actual = @ + elapsedMinutes(now, t.StartedAt),
                          !.StartedAt = 0, !.Status = status]
           ELSE [t EXCEPT !.Status = status]
      [] OTHER -> [t EXCEPT !.Status = status]

\* A status the switch does not name is settled like the others.
updateTaskSettlesUnknown(t, now, status) ==
    CASE status = "started" ->
           [t EXCEPT !.StartedAt = now, !.Status = "started"]
      [] OTHER ->
           IF t.StartedAt # 0
           THEN [t EXCEPT !.Actual = @ + elapsedMinutes(now, t.StartedAt),
                          !.StartedAt = 0, !.Status = status]
           ELSE [t EXCEPT !.Status = status]

\* Starting a task begins its count of minutes again.
updateTaskRestartsActual(t, now, status) ==
    CASE status = "started" ->
           [t EXCEPT !.StartedAt = now, !.Status = "started", !.Actual = 0]
      [] status \in {"done", "cancelled", "pending"} ->
           IF t.StartedAt # 0
           THEN [t EXCEPT !.Actual = @ + elapsedMinutes(now, t.StartedAt),
                          !.StartedAt = 0, !.Status = status]
           ELSE [t EXCEPT !.Status = status]
      [] OTHER -> [t EXCEPT !.Status = status]

\* A task is marked started without its timer being set.
updateTaskStartsWithoutTimer(t, now, status) ==
    CASE status = "started" -> [t EXCEPT !.Status = "started"]
      [] status \in {"done", "cancelled", "pending"} ->
           IF t.StartedAt # 0
           THEN [t EXCEPT !.Actual = @ + elapsedMinutes(now, t.StartedAt),
                          !.StartedAt = 0, !.Status = status]
           ELSE [t EXCEPT !.Status = status]
      [] OTHER -> [t EXCEPT !.Status = status]

\* The switch of updateStatus on one task.
updateTask(t, now, status) ==
    CASE status = "started" ->
           [t EXCEPT !.StartedAt = now, !.Status = "started"]
      [] status \in {"done", "cancelled", "pending"} ->
           IF t.StartedAt # 0
           THEN [t EXCEPT !.Actual = @ + elapsedMinutes(now, t.StartedAt),
                          !.StartedAt = 0,
                          !.Status = status]
           ELSE [t EXCEPT !.Status = status]
      [] OTHER -> [t EXCEPT !.Status = status]

\* The bounds check lets the index one past the end through.
updateStatusOffByOne(d, now, index, status) ==
    LET today == todayKey(now)
        tasks == d[today]
    IN IF index < 0 \/ index > Len(tasks)
       THEN [data |-> d, err |-> "invalid task index"]
       ELSE [data |-> [d EXCEPT ![today] =
                          [k \in DOMAIN tasks |->
                              IF k = index + 1 THEN updateTask(tasks[k], now, status)
                                               ELSE tasks[k]]],
             err |-> ""]

\* updateStatus(index, status) on the store d at time now: the store it saves
\* and the error it returns.
updateStatus(d, now, index, status) ==
    LET today == todayKey(now)
        tasks == d[today]
    IN IF index < 0 \/ index >= Len(tasks)
       THEN [data |-> d, err |-> "invalid task index"]
       ELSE [data |-> [d EXCEPT ![today] =
                          [tasks EXCEPT ![index + 1] = updateTask(@, now, status)]],
             err |-> ""]

\* Indices (from 0) of the tasks of a bucket with the given status.
IndicesWith(tasks, status) ==
    {i \in 0 .. (Len(tasks) - 1) : At(tasks, i).Status = status}

Min(S) == CHOOSE x \in S : \A y \in S : x <= y

----------------------------------------------------------------------------
(* How a command ends *)

\* The store a command leaves and its result: "ok" (it saved the store and
\* returned nil), "warned" (the same, after printing a warning), "aborted" (it
\* returned nil without saving), a notice it printed before returning nil
\* without saving, or else the error it returned.
Ended(d, result) == [data |-> d, result |-> result]

\* How a command ends on a prompt error: nil for an abort, else the error.
PromptFailure(err) == IF IsAbort(err) THEN "aborted" ELSE err

\* return updateStatus(...)
Returned(r) == Ended(r.data, IF r.err = "" THEN "ok" ELSE r.err)

Notices == {"No tasks available.", "No tasks to delete.",
            "A task is already started.", "No pending tasks to start.",
            "No task is currently started."}

----------------------------------------------------------------------------
(* Inputs *)

KeyInputs == {KeyError("interrupt")}
\* Nothing typed: the prompt meets the end of the input.
NoInput == KeyError("^D")
TitleInputs == {Word(""), Word("a"), Word("q")} \cup KeyInputs
\* What is typed at the estimate prompt of add: entries, then perhaps a key.
EstimateInputs ==
    {<<Numeral(300)>>, <<Numeral(0)>>, <<Numeral(-1)>>, <<Word("abc")>>,
     <<Numeral(0), Numeral(300)>>, <<Word("abc"), KeyError("interrupt")>>,
     <<KeyError("interrupt")>>}
StatusItems == <<"pending", "started", "done", "cancelled">>
StatusInputs == {Word(StatusItems[k]) : k \in DOMAIN StatusItems} \cup KeyInputs

\* What the select prompt of a bucket can return: one of its indices, or a key.
SelectInputs(tasks) ==
    {Numeral(i) : i \in 0 .. (Len(tasks) - 1)} \cup KeyInputs

----------------------------------------------------------------------------
(* add, addt *)

\* The Validate function of the estimate prompt.
estimateValid(input) ==
    LET a == Atoi(input) IN a.err = "" /\ a.val > 0

\* Prompt.Run with Validate: an entry that does not validate is refused and
\* the prompt reads on; it ends on a key, on the first valid entry, or on the
\* end of the input.
RECURSIVE ValidatedRun(_)
ValidatedRun(entries) ==
    IF entries = <<>> THEN PromptRun(NoInput)
    ELSE IF Head(entries).kind = "key" \/ estimateValid(Head(entries))
         THEN PromptRun(Head(entries))
         ELSE ValidatedRun(Tail(entries))

RECURSIVE SumEstimated(_)
SumEstimated(tasks) ==
    IF tasks = <<>> THEN 0 ELSE Head(tasks).Estimated + SumEstimated(Tail(tasks))

\* The new task is put at the head of the bucket.
addTaskAtHead(d, now, tommorow, titleIn, estIn) ==
    LET today == dayKey(now, tommorow)
        title == promptWithCursor(titleIn, Word(""))
        est == ValidatedRun(estIn)
        estimated == Atoi(est.val).val
        total == SumEstimated(d[today])
        task == Task(title.val, estimated, 0, "pending", 0)
    IN IF title.err # "" THEN Ended(d, PromptFailure(title.err))
       ELSE IF est.err # "" THEN Ended(d, PromptFailure(est.err))
       ELSE Ended([d EXCEPT ![today] = <<task>> \o @],
                  IF total + estimated > maxDailyMinutes THEN "warned" ELSE "ok")

\* The warning is given as soon as the day is full, not when it overflows.
addTaskWarnsWhenFull(d, now, tommorow, titleIn, estIn) ==
    LET today == dayKey(now, tommorow)
        title == promptWithCursor(titleIn, Word(""))
        est == ValidatedRun(estIn)
        estimated == Atoi(est.val).val
        total == SumEstimated(d[today])
        task == Task(title.val, estimated, 0, "pending", 0)
    IN IF title.err # "" THEN Ended(d, PromptFailure(title.err))
       ELSE IF est.err # "" THEN Ended(d, PromptFailure(est.err))
       ELSE Ended([d EXCEPT ![today] = Append(@, task)],
                  IF total + estimated >= maxDailyMinutes THEN "warned" ELSE "ok")

addTaskInteractive(d, now, tommorow, titleIn, estIn) ==
    LET today == dayKey(now, tommorow)
        title == promptWithCursor(titleIn, Word(""))
        est == ValidatedRun(estIn)
        estimated == Atoi(est.val).val
        total == SumEstimated(d[today])
        task == Task(title.val, estimated, 0, "pending", 0)
    IN IF title.err # "" THEN Ended(d, PromptFailure(title.err))
       ELSE IF est.err # "" THEN Ended(d, PromptFailure(est.err))
       ELSE Ended([d EXCEPT ![today] = Append(@, task)],
                  IF total + estimated > maxDailyMinutes THEN "warned" ELSE "ok")

----------------------------------------------------------------------------
(* status *)

selectTaskAndSetStatus(d, now, indexIn, statusIn) ==
    LET tasks == d[todayKey(now)]
        sel == PromptRun(indexIn)
        st == PromptRun(statusIn)
    IN IF Len(tasks) = 0 THEN Ended(d, "No tasks available.")
       ELSE IF sel.err # "" THEN Ended(d, PromptFailure(sel.err))
       ELSE IF st.err # "" THEN Ended(d, PromptFailure(st.err))
       ELSE Returned(updateStatus(d, now, sel.val.n, st.val.w))

----------------------------------------------------------------------------
(* next *)

ChoiceEntries == {Word("Start"), Word("Skip")} \cup KeyInputs
\* What is typed at the Start / Skip prompts of next, one entry per prompt.
ChoiceInputs ==
    UNION {[1 .. n -> ChoiceEntries] : n \in 1 .. MaxTasks}

\* A Skip ends the command instead of moving on to the next pending task.
offerPendingOnce(tasks, i, choices) ==
    LET pending == IndicesWith(tasks, "pending")
        c == IF choices = <<>> THEN PromptRun(NoInput) ELSE PromptRun(Head(choices))
    IN IF {k \in pending : k >= i} = {}
       THEN [index |-> -1, result |-> "No pending tasks to start."]
       ELSE IF c.err # "" THEN [index |-> -1, result |-> PromptFailure(c.err)]
       ELSE IF c.val = Word("Start")
            THEN [index |-> Min({k \in pending : k >= i}), result |-> "ok"]
       ELSE [index |-> -1, result |-> "No pending tasks to start."]

\* The second loop of startNextPendingTask from index i on: the index it
\* starts, or how it ends without starting one.
RECURSIVE offerPending(_, _, _)
offerPending(tasks, i, choices) ==
    IF i >= Len(tasks) THEN [index |-> -1, result |-> "No pending tasks to start."]
    ELSE IF At(tasks, i).Status # "pending" THEN offerPending(tasks, i + 1, choices)
    ELSE LET c == IF choices = <<>> THEN PromptRun(NoInput)
                                    ELSE PromptRun(Head(choices))
         IN IF c.err # "" THEN [index |-> -1, result |-> PromptFailure(c.err)]
            ELSE IF c.val = Word("Start") THEN [index |-> i, result |-> "ok"]
            ELSE offerPending(tasks, i + 1, Tail(choices))

\* The first loop, which looks for a started task, is left out.
startNextUnchecked(d, now, choices) ==
    LET tasks == d[todayKey(now)]
        o == offerPending(tasks, 0, choices)
    IN IF o.index < 0 THEN Ended(d, o.result)
       ELSE Returned(updateStatus(d, now, o.index, "started"))

startNextPendingTask(d, now, choices) ==
    LET tasks == d[todayKey(now)]
        o == offerPending(tasks, 0, choices)
    IN IF IndicesWith(tasks, "started") # {} THEN Ended(d, "A task is already started.")
       ELSE IF o.index < 0 THEN Ended(d, o.result)
       ELSE Returned(updateStatus(d, now, o.index, "started"))

----------------------------------------------------------------------------
(* finish, stop *)

\* The loop finishCurrentTask and stopCurrentTask share: updateStatus on the
\* first started task of today's bucket.
\* The status is assigned in place, the running timer neither added nor cleared.
settleCurrentTaskDirect(d, now, status) ==
    LET today == todayKey(now)
        started == IndicesWith(d[today], "started")
    IN IF started = {} THEN Ended(d, "No task is currently started.")
       ELSE Ended([d EXCEPT ![today] =
                      [@ EXCEPT ![Min(started) + 1] = [@ EXCEPT !.Status = status]]],
                  "ok")

settleCurrentTask(d, now, status) ==
    LET started == IndicesWith(d[todayKey(now)], "started")
    IN IF started = {} THEN Ended(d, "No task is currently started.")
       ELSE Returned(updateStatus(d, now, Min(started), status))

finishCurrentTask(d, now) == settleCurrentTask(d, now, "done")

stopCurrentTask(d, now) == settleCurrentTask(d, now, "pending")

\* current: the index of the first task with Status started and the elapsed
\* minutes printed for it; the store is only read.
currentTask(d, now) ==
    LET tasks == d[todayKey(now)]
        started == IndicesWith(tasks, "started")
    IN IF started = {}
       THEN [data |-> d, result |-> "No task is currently started.",
             index |-> -1, elapsed |-> 0]
       ELSE [data |-> d, result |-> "ok", index |-> Min(started),
             elapsed |-> TruncDiv(now - At(tasks, Min(started)).StartedAt,
                                  SecondsPerMinute)]

----------------------------------------------------------------------------
(* delete *)

deleteTaskInteractive(d, now, indexIn) ==
    LET today == todayKey(now)
        tasks == d[today]
        sel == PromptRun(indexIn)
    IN IF Len(tasks) = 0 THEN Ended(d, "No tasks to delete.")
       ELSE IF sel.err # "" THEN Ended(d, PromptFailure(sel.err))
       ELSE Ended([d EXCEPT ![today] = RemoveAt(tasks, sel.val.n + 1)], "ok")

----------------------------------------------------------------------------
(* ls, lst: one round of the edit loop *)

\* What is typed in one round of the edit loop on a task, prompt by prompt:
\* the fields kept and a status chosen, every field overwritten, or a round
\* cut short at one of its four prompts (the later ones are left unread).
EditInputs(task) ==
    {<<task.Title, Itoa(task.Estimated), Itoa(task.Actual), Word(StatusItems[k])>> :
        k \in DOMAIN StatusItems}
    \cup {<<Word(""), Word("abc"), Numeral(-1), Word(st)>> :
            st \in {x \in Statuses : x = task.Status}}
    \cup {<<Word("q"), NoInput, NoInput, NoInput>>,
          <<task.Title, KeyError("interrupt"), NoInput, NoInput>>,
          <<task.Title, Itoa(task.Estimated), Word("q"), NoInput>>,
          <<task.Title, Itoa(task.Estimated), Itoa(task.Actual), KeyError("interrupt")>>}

\* What has been typed is applied and saved when the status prompt is left.
listTasksSavesPartial(d, now, tommorow, indexIn, titleIn, estIn, actualIn, statusIn) ==
    LET today == dayKey(now, tommorow)
        tasks == d[today]
        sel == PromptRun(indexIn)
        index == sel.val.n
        task == At(tasks, index)
        title == promptWithCursor(titleIn, task.Title)
        estStr == promptWithCursor(estIn, Itoa(task.Estimated))
        actualStr == promptWithCursor(actualIn, Itoa(task.Actual))
        status == PromptRun(statusIn)
        estimated == Atoi(estStr.val).val
        actual == Atoi(actualStr.val).val
        typed == [task EXCEPT !.Title = title.val, !.Estimated = estimated,
                              !.Actual = actual]
        edited == [typed EXCEPT !.Status = status.val.w]
    IN IF Len(tasks) = 0 THEN Ended(d, "No tasks available.")
       ELSE IF sel.err # "" THEN Ended(d, PromptFailure(sel.err))
       ELSE IF title.err # "" THEN Ended(d, PromptFailure(title.err))
       ELSE IF estStr.err # "" THEN Ended(d, PromptFailure(estStr.err))
       ELSE IF actualStr.err # "" THEN Ended(d, PromptFailure(actualStr.err))
       ELSE IF status.err # ""
            THEN Ended([d EXCEPT ![today] = [tasks EXCEPT ![index + 1] = typed]],
                       PromptFailure(status.err))
       ELSE Ended([d EXCEPT ![today] = [tasks EXCEPT ![index + 1] = edited]], "ok")

\* The round of the edit loop of listTasksInteractive on the task selected.
\* A round that saves leaves the command at the select prompt for another
\* round; the save's error is dropped.
listTasksInteractive(d, now, tommorow, indexIn, titleIn, estIn, actualIn, statusIn) ==
    LET today == dayKey(now, tommorow)
        tasks == d[today]
        sel == PromptRun(indexIn)
        index == sel.val.n
        task == At(tasks, index)
        title == promptWithCursor(titleIn, task.Title)
        estStr == promptWithCursor(estIn, Itoa(task.Estimated))
        actualStr == promptWithCursor(actualIn, Itoa(task.Actual))
        status == PromptRun(statusIn)
        estimated == Atoi(estStr.val).val
        actual == Atoi(actualStr.val).val
        edited == [task EXCEPT !.Title = title.val, !.Estimated = estimated,
                               !.Actual = actual, !.Status = status.val.w]
    IN IF Len(tasks) = 0 THEN Ended(d, "No tasks available.")
       ELSE IF sel.err # "" THEN Ended(d, PromptFailure(sel.err))
       ELSE IF title.err # "" THEN Ended(d, PromptFailure(title.err))
       ELSE IF estStr.err # "" THEN Ended(d, PromptFailure(estStr.err))
       ELSE IF actualStr.err # "" THEN Ended(d, PromptFailure(actualStr.err))
       ELSE IF status.err # "" THEN Ended(d, PromptFailure(status.err))
       ELSE Ended([d EXCEPT ![today] = [tasks EXCEPT ![index + 1] = edited]], "ok")

----------------------------------------------------------------------------
(* The daily capacity calculator *)

\* time.Date(now.Year(), now.Month(), now.Day(), h, m, 0, 0, now.Location())
dateAt(now, h, m) == todayKey(now) * SecondsPerDay + ClockOfDay(h, m)

\* int(d.Minutes()) of a duration of d seconds.
wholeMinutes(d) == TruncDiv(d, SecondsPerMinute)

\* The lunch break is counted as working time.
remainingMinutesNoLunch(now) ==
    LET workStart == dateAt(now, 8, 30)
        lunchStart == dateAt(now, 12, 30)
        workEnd == dateAt(now, 17, 30)
    IN IF now < workStart THEN FullDayMinutes
       ELSE IF now > workEnd THEN 0
       ELSE IF now < lunchStart THEN wholeMinutes(lunchStart - now) + AfternoonMinutes
       ELSE IF now < workEnd THEN wholeMinutes(workEnd - now)
       ELSE 0

\* The afternoon session is left out of the morning's count.
remainingMinutesMorningOnly(now) ==
    LET workStart == dateAt(now, 8, 30)
        lunchStart == dateAt(now, 12, 30)
        lunchEnd == dateAt(now, 13, 30)
        workEnd == dateAt(now, 17, 30)
    IN IF now < workStart THEN FullDayMinutes
       ELSE IF now > workEnd THEN 0
       ELSE IF now < lunchStart THEN wholeMinutes(lunchStart - now)
       ELSE IF now < lunchEnd THEN AfternoonMinutes
       ELSE IF now < workEnd THEN wholeMinutes(workEnd - now)
       ELSE 0

remainingMinutesToday(now) ==
    LET workStart == dateAt(now, 8, 30)
        lunchStart == dateAt(now, 12, 30)
        lunchEnd == dateAt(now, 13, 30)
        workEnd == dateAt(now, 17, 30)
    IN IF now < workStart THEN FullDayMinutes
       ELSE IF now > workEnd THEN 0
       ELSE IF now < lunchStart THEN wholeMinutes(lunchStart - now) + AfternoonMinutes
       ELSE IF now < lunchEnd THEN AfternoonMinutes
       ELSE IF now < workEnd THEN wholeMinutes(workEnd - now)
       ELSE 0

----------------------------------------------------------------------------
(* The figures ls and lst print above the task list *)

\* A float64 quotient of two ints, kept as the pair it is the quotient of.
Ratio(n, d) == [num |-> n, den |-> d]

\* The time a task has left is not held at zero when it ran over.
RECURSIVE sumTasksUnclamped(_, _)
sumTasksUnclamped(tasks, acc) ==
    IF tasks = <<>> THEN acc
    ELSE LET t == Head(tasks)
         IN sumTasksUnclamped(Tail(tasks),
                [totalActual |-> acc.totalActual + t.Actual,
                 totalEst |-> acc.totalEst + t.Estimated,
                 achievedWork |-> IF t.Status = "done"
                                  THEN acc.achievedWork + t.Estimated
                                  ELSE acc.achievedWork,
                 remainingWork |-> IF t.Status # "done" /\ t.Status # "cancelled"
                                   THEN acc.remainingWork + t.Estimated - t.Actual
                                   ELSE acc.remainingWork])

\* The loop over the bucket that accumulates the four totals.
RECURSIVE sumTasks(_, _)
sumTasks(tasks, acc) ==
    IF tasks = <<>> THEN acc
    ELSE LET t == Head(tasks)
             remainingTime == IF t.Estimated - t.Actual < 0 THEN 0
                              ELSE t.Estimated - t.Actual
         IN sumTasks(Tail(tasks),
                [totalActual |-> acc.totalActual + t.Actual,
                 totalEst |-> acc.totalEst + t.Estimated,
                 achievedWork |-> IF t.Status = "done"
                                  THEN acc.achievedWork + t.Estimated
                                  ELSE acc.achievedWork,
                 remainingWork |-> IF t.Status # "done" /\ t.Status # "cancelled"
                                   THEN acc.remainingWork + remainingTime
                                   ELSE acc.remainingWork])

NoTotals == [totalActual |-> 0, totalEst |-> 0, achievedWork |-> 0, remainingWork |-> 0]

\* The division is made whatever the minutes left.
workloadRatioUnguarded(remainingWork, left) == Ratio(remainingWork, left)

\* ratio := float64(remainingWork); if minutesLeft > 0 { ratio /= ... } else { ratio = 1.0 }
workloadRatio(remainingWork, left) ==
    IF left > 0 THEN Ratio(remainingWork, left) ELSE Ratio(1, 1)

\* What listTasksInteractive computes before its edit loop.
listFigures(tasks, now) ==
    LET totals == sumTasks(tasks, NoTotals)
        left == remainingMinutesToday(now)
    IN [totalActual |-> totals.totalActual, totalEst |-> totals.totalEst,
        achievedWork |-> totals.achievedWork, remainingWork |-> totals.remainingWork,
        minutesLeft |-> left, ratio |-> workloadRatio(totals.remainingWork, left)]

\* Nothing printed yet.
NoFigures == [totalActual |-> 0, totalEst |-> 0, achievedWork |-> 0, remainingWork |-> 0,
              minutesLeft |-> 0, ratio |-> Ratio(0, 1)]

----------------------------------------------------------------------------
(* tasks.yaml *)

\* A key of a YAML mapping, or the zero value when the mapping lacks it.
Field(y, key, zero) == IF key \in DOMAIN y THEN y[key] ELSE zero

\* The started_at key is left out of the mapping.
encodeTaskWithoutTimer(t) ==
    [title |-> t.Title, estimated |-> Itoa(t.Estimated), actual |-> Itoa(t.Actual),
     status |-> Word(t.Status)]

\* A Task as yaml.Marshal writes it: one mapping, keyed by the yaml tags of
\* the struct, the integers as decimal numerals.
encodeTask(t) ==
    [title |-> t.Title, estimated |-> Itoa(t.Estimated), actual |-> Itoa(t.Actual),
     status |-> Word(t.Status), started_at |-> Itoa(t.StartedAt)]

\* A mapping as yaml.Unmarshal reads it into a Task, by the same tags.
decodeTask(y) ==
    Task(Field(y, "title", Word("")),
         Atoi(Field(y, "estimated", Numeral(0))).val,
         Atoi(Field(y, "actual", Numeral(0))).val,
         Field(y, "status", Word("")).w,
         Atoi(Field(y, "started_at", Numeral(0))).val)

yamlMarshal(d) ==
    [day \in DOMAIN d |-> [k \in 1 .. Len(d[day]) |-> encodeTask(d[day][k])]]

\* The TaskData map decoded from the bytes; data[day] of a date the file has
\* no key for is the empty sequence.
yamlUnmarshal(bytes) ==
    [day \in Days |->
        IF day \in DOMAIN bytes
        THEN [k \in 1 .. Len(bytes[day]) |-> decodeTask(bytes[day][k])]
        ELSE <<>>]

\* TaskData{}: every bucket empty.
NoData == [d \in Days |-> <<>>]

\* tasks.yaml as os.ReadFile finds it: missing, there but unreadable, or
\* present with its bytes.
FileStates == {"missing", "unreadable", "present"}

NoBytes == [day \in {} |-> <<>>]

FileOf(state, bytes) == [state |-> state, bytes |-> bytes]

\* saveTasks: tasks.yaml as written.
saveTasks(d) == FileOf("present", yamlMarshal(d))

\* A missing file is reported like any other read error.
loadTasksMissingIsError(file) ==
    IF file.state # "present"
    THEN [data |-> NoData, err |-> "read error"]
    ELSE [data |-> yamlUnmarshal(file.bytes), err |-> ""]

\* loadTasks: the TaskData and the error returned for tasks.yaml as found.
\* The nil map returned with a read error reads as empty.
loadTasks(file) ==
    IF file.state = "missing" THEN [data |-> NoData, err |-> ""]
    ELSE IF file.state = "unreadable" THEN [data |-> NoData, err |-> "read error"]
    ELSE [data |-> yamlUnmarshal(file.bytes), err |-> ""]

----------------------------------------------------------------------------
(* Invocations side by side *)

Procs == 1 .. MaxProcs

\* What an invocation does between its load and its save.
NoOp == [cmd |-> "", title |-> Word(""), est |-> 0, index |-> 0, status |-> ""]
Ops ==
    {[NoOp EXCEPT !.cmd = "add", !.title = Word(w), !.est = 300] : w \in {"a", "b"}}
    \cup {[NoOp EXCEPT !.cmd = "updateStatus", !.index = i, !.status = st] :
             i \in {0, 1}, st \in {"started", "done"}}

\* pc: idle, loaded (between load and save), saved or failed; mem: the
\* TaskData loaded; seen: the number of writes the file had had when it was
\* loaded; wrote: the TaskData passed to saveTasks, at: when, order: as the
\* how-manieth write of the file.
Idle == [pc |-> "idle", op |-> NoOp, mem |-> NoData, seen |-> 0,
         wrote |-> NoData, at |-> 0, order |-> 0]

\* The store an invocation makes of the store it loaded, and how it ends.
Modified(op, mem, now) ==
    IF op.cmd = "add"
    THEN addTaskInteractive(mem, now, FALSE, op.title, <<Numeral(op.est)>>)
    ELSE Returned(updateStatus(mem, now, op.index, op.status))

----------------------------------------------------------------------------
(* The commands of the CLI, run one after the other *)

Report(cmd, result) == [cmd |-> cmd, result |-> result]

\* The command cmd runs and ends as r.
Run(cmd, r) ==
    /\ data' = r.data
    /\ last' = Report(cmd, r.result)
    /\ UNCHANGED <<clock, minutesLeft, shown, procs>>

Init ==
    /\ data = [d \in Days |-> <<>>]
    /\ clock = StartClock
    /\ last = Report("", "")
    /\ minutesLeft = 0
    /\ shown = NoFigures
    /\ procs = [p \in Procs |-> Idle]

Add ==
    /\ StoredTasks(data) < MaxTasks
    /\ \E tommorow \in BOOLEAN, titleIn \in TitleInputs, estIn \in EstimateInputs :
           Run(IF tommorow THEN "addt" ELSE "add",
               addTaskInteractive(data, clock, tommorow, titleIn, estIn))

List ==
    \E tommorow \in BOOLEAN :
        LET tasks == data[dayKey(clock, tommorow)]
            cmd == IF tommorow THEN "lst" ELSE "ls"
        IN \E indexIn \in SelectInputs(tasks) :
               IF indexIn.kind = "key" \/ tasks = <<>>
               THEN Run(cmd, listTasksInteractive(data, clock, tommorow, indexIn,
                                                  NoInput, NoInput, NoInput, NoInput))
               ELSE \E in \in EditInputs(At(tasks, indexIn.n)) :
                        Run(cmd, listTasksInteractive(data, clock, tommorow, indexIn,
                                                      in[1], in[2], in[3], in[4]))

Status ==
    \E indexIn \in SelectInputs(data[todayKey(clock)]), statusIn \in StatusInputs :
        Run("status", selectTaskAndSetStatus(data, clock, indexIn, statusIn))

StartNext ==
    \E choices \in ChoiceInputs : Run("next", startNextPendingTask(data, clock, choices))

Finish == Run("finish", finishCurrentTask(data, clock))

Stop == Run("stop", stopCurrentTask(data, clock))

Delete ==
    \E indexIn \in SelectInputs(data[todayKey(clock)]) :
        Run("delete", deleteTaskInteractive(data, clock, indexIn))

\* Time passes between two commands.
Tick ==
    /\ clock - StartClock < MaxTicks * TickSeconds
    /\ clock' = clock + TickSeconds
    /\ UNCHANGED <<data, last, minutesLeft, shown, procs>>

Next ==
    \/ Add
    \/ List
    \/ Status
    \/ StartNext
    \/ Finish
    \/ Stop
    \/ Delete
    \/ Tick

Spec == Init /\ [][Next]_vars

\* The commands together with current.
Current == Run("current", currentTask(data, clock))

CurrentNext == Next \/ Current

SpecCurrent == Init /\ [][CurrentNext]_vars

\* The commands over several days: midnight passes between two commands.
NextDay ==
    /\ todayKey(clock) - FirstDay < MaxRollovers
    /\ clock' = clock + SecondsPerDay
    /\ UNCHANGED <<data, last, minutesLeft, shown, procs>>

DaysNext ==
    \/ Add
    \/ List
    \/ Status
    \/ StartNext
    \/ Finish
    \/ Stop
    \/ Delete
    \/ NextDay

SpecDays == Init /\ [][DaysNext]_vars

----------------------------------------------------------------------------
(* The engine called directly: updateStatus with any index and status *)

AnyStatus == Statuses \cup {"archived"}

Transition ==
    \E index \in -1 .. MaxTasks, status \in AnyStatus :
        Run("updateStatus", Returned(updateStatus(data, clock, index, status)))

EngineNext ==
    \/ Next
    \/ Transition

SpecEngine == Init /\ [][EngineNext]_vars

----------------------------------------------------------------------------
(* The capacity calculator at every second of a day *)

CapacityInit ==
    /\ data = [d \in Days |-> <<>>]
    /\ clock \in {FirstDay * SecondsPerDay + tod : tod \in 0 .. (SecondsPerDay - 1)}
    /\ last = Report("", "")
    /\ minutesLeft = 0
    /\ shown = NoFigures
    /\ procs = [p \in Procs |-> Idle]

\* minutesLeft := remainingMinutesToday(time.Now())
RemainingMinutes ==
    /\ last.cmd = ""
    /\ minutesLeft' = remainingMinutesToday(clock)
    /\ last' = Report("remainingMinutesToday", "ok")
    /\ UNCHANGED <<data, clock, shown, procs>>

CapacityNext == RemainingMinutes

SpecCapacity == CapacityInit /\ [][CapacityNext]_vars

----------------------------------------------------------------------------
(* The commands when reading or writing tasks.yaml fails *)

\* What the file system does to a command: nothing, os.ReadFile fails (other
\* than with a missing file), or os.WriteFile fails.  A write that fails is
\* taken to leave the file as it was.
Faults == {"none", "read", "write"}

\* How a command that would end as r on the store d ends under a fault.
\* Every command begins with data, err := loadTasks(); if err != nil { return
\* err }.  A command that reaches saveTasks either returns its error (checked)
\* or drops it and goes on as if the store had been saved.
UnderFault(fault, d, r, checked) ==
    IF fault = "read" THEN Ended(d, "read error")
    ELSE IF fault = "write" /\ r.result \in {"ok", "warned"}
         THEN Ended(d, IF checked THEN "write error" ELSE r.result)
    ELSE r

addUnder(fault, d, now, tommorow, titleIn, estIn) ==
    UnderFault(fault, d, addTaskInteractive(d, now, tommorow, titleIn, estIn), TRUE)

listUnder(fault, d, now, tommorow, indexIn, titleIn, estIn, actualIn, statusIn) ==
    UnderFault(fault, d,
               listTasksInteractive(d, now, tommorow, indexIn, titleIn, estIn,
                                    actualIn, statusIn),
               FALSE)

statusUnder(fault, d, now, indexIn, statusIn) ==
    UnderFault(fault, d, selectTaskAndSetStatus(d, now, indexIn, statusIn), TRUE)

nextUnder(fault, d, now, choices) ==
    UnderFault(fault, d, startNextPendingTask(d, now, choices), TRUE)

finishUnder(fault, d, now) == UnderFault(fault, d, finishCurrentTask(d, now), TRUE)

stopUnder(fault, d, now) == UnderFault(fault, d, stopCurrentTask(d, now), TRUE)

deleteUnder(fault, d, now, indexIn) ==
    UnderFault(fault, d, deleteTaskInteractive(d, now, indexIn), TRUE)

FaultyAdd ==
    /\ StoredTasks(data) < MaxTasks
    /\ \E fault \in Faults, tommorow \in BOOLEAN,
          titleIn \in TitleInputs, estIn \in EstimateInputs :
           Run(IF tommorow THEN "addt" ELSE "add",
               addUnder(fault, data, clock, tommorow, titleIn, estIn))

FaultyList ==
    \E fault \in Faults, tommorow \in BOOLEAN :
        LET tasks == data[dayKey(clock, tommorow)]
            cmd == IF tommorow THEN "lst" ELSE "ls"
        IN \E indexIn \in SelectInputs(tasks) :
               IF indexIn.kind = "key" \/ tasks = <<>>
               THEN Run(cmd, listUnder(fault, data, clock, tommorow, indexIn,
                                       NoInput, NoInput, NoInput, NoInput))
               ELSE \E in \in EditInputs(At(tasks, indexIn.n)) :
                        Run(cmd, listUnder(fault, data, clock, tommorow, indexIn,
                                           in[1], in[2], in[3], in[4]))

FaultyStatus ==
    \E fault \in Faults,
       indexIn \in SelectInputs(data[todayKey(clock)]), statusIn \in StatusInputs :
        Run("status", statusUnder(fault, data, clock, indexIn, statusIn))

FaultyStartNext ==
    \E fault \in Faults, choices \in ChoiceInputs :
        Run("next", nextUnder(fault, data, clock, choices))

FaultyFinish == \E fault \in Faults : Run("finish", finishUnder(fault, data, clock))

FaultyStop == \E fault \in Faults : Run("stop", stopUnder(fault, data, clock))

FaultyDelete ==
    \E fault \in Faults, indexIn \in SelectInputs(data[todayKey(clock)]) :
        Run("delete", deleteUnder(fault, data, clock, indexIn))

FaultsNext ==
    \/ FaultyAdd
    \/ FaultyList
    \/ FaultyStatus
    \/ FaultyStartNext
    \/ FaultyFinish
    \/ FaultyStop
    \/ FaultyDelete

SpecFaults == Init /\ [][FaultsNext]_vars

----------------------------------------------------------------------------
(* ls and lst printing their figures, on any bucket at any time of the day *)

\* The tasks of the buckets listed.
ShownTasks ==
    {Task(Word("a"), e, a, st, 0) : e \in {60, 100}, a \in {0, 100, 150}, st \in Statuses}

ShownBuckets == UNION {[1 .. n -> ShownTasks] : n \in 1 .. MaxShown}

\* The instants of the day the buckets are listed at.
ShownInstants ==
    {FirstDay * SecondsPerDay + tod :
        tod \in {ClockOfDay(8, 0), ClockOfDay(8, 30), ClockOfDay(12, 0),
                 ClockOfDay(12, 0) + 30, ClockOfDay(12, 30), ClockOfDay(13, 0),
                 ClockOfDay(13, 30), ClockOfDay(15, 0), ClockOfDay(17, 30),
                 ClockOfDay(17, 30) + 1, ClockOfDay(18, 0)}}

FiguresInit ==
    /\ \E tommorow \in BOOLEAN, tasks \in ShownBuckets :
           data = [d \in Days |-> IF d = FirstDay + (IF tommorow THEN 1 ELSE 0)
                                  THEN tasks ELSE <<>>]
    /\ clock \in ShownInstants
    /\ last = Report("", "")
    /\ minutesLeft = 0
    /\ shown = NoFigures
    /\ procs = [p \in Procs |-> Idle]

\* ls or lst up to its select prompt, where the user leaves.
ShowFigures ==
    /\ last.cmd = ""
    /\ \E tommorow \in BOOLEAN :
           LET tasks == data[dayKey(clock, tommorow)]
               r == listTasksInteractive(data, clock, tommorow, KeyError("interrupt"),
                                         NoInput, NoInput, NoInput, NoInput)
           IN /\ data' = r.data
              /\ last' = Report(IF tommorow THEN "lst" ELSE "ls", r.result)
              /\ shown' = IF tasks = <<>> THEN shown ELSE listFigures(tasks, clock)
              /\ minutesLeft' = IF tasks = <<>> THEN minutesLeft ELSE shown'.minutesLeft
              /\ UNCHANGED <<clock, procs>>

FiguresNext == ShowFigures

SpecFigures == FiguresInit /\ [][FiguresNext]_vars

----------------------------------------------------------------------------
(* Two invocations on the same tasks.yaml, without locking *)

Writes == Cardinality({p \in Procs : procs[p].pc = "saved"})

\* The stores the invocations find: empty, or a task added earlier, pending
\* or running.
FoundStores ==
    {NoData,
     [NoData EXCEPT ![FirstDay] = <<Task(Word("c"), 60, 0, "pending", 0)>>],
     [NoData EXCEPT ![FirstDay] = <<Task(Word("c"), 60, 0, "started", StartClock)>>]}

StoreInit ==
    /\ data \in {loadTasks(saveTasks(d)).data : d \in FoundStores}
    /\ clock = StartClock
    /\ last = Report("", "")
    /\ minutesLeft = 0
    /\ shown = NoFigures
    /\ procs = [p \in Procs |-> Idle]

\* data, err := loadTasks()
Load(p) ==
    /\ procs[p].pc = "idle"
    /\ \E op \in Ops :
           procs' = [procs EXCEPT ![p] = [@ EXCEPT !.pc = "loaded", !.op = op,
                                                   !.mem = data, !.seen = Writes]]
    /\ UNCHANGED <<data, clock, last, minutesLeft, shown>>

\* The store is written from what the file holds now, not from what was loaded.
SaveMerging(p) ==
    /\ procs[p].pc = "loaded"
    /\ LET r == Modified(procs[p].op, data, clock)
       IN IF r.result \in {"ok", "warned"}
          THEN /\ data' = loadTasks(saveTasks(r.data)).data
               /\ procs' = [procs EXCEPT ![p] = [@ EXCEPT !.pc = "saved", !.wrote = r.data,
                                                       !.at = clock, !.order = Writes + 1]]
               /\ last' = Report(procs[p].op.cmd, r.result)
          ELSE /\ procs' = [procs EXCEPT ![p] = [@ EXCEPT !.pc = "failed"]]
               /\ last' = Report(procs[p].op.cmd, r.result)
               /\ UNCHANGED data
    /\ UNCHANGED <<clock, minutesLeft, shown>>

\* The TaskData loaded is modified and passed to saveTasks, which replaces
\* the file; an invocation that fails returns before saveTasks.
Save(p) ==
    /\ procs[p].pc = "loaded"
    /\ LET r == Modified(procs[p].op, procs[p].mem, clock)
       IN IF r.result \in {"ok", "warned"}
          THEN /\ data' = loadTasks(saveTasks(r.data)).data
               /\ procs' = [procs EXCEPT ![p] = [@ EXCEPT !.pc = "saved", !.wrote = r.data,
                                                       !.at = clock, !.order = Writes + 1]]
               /\ last' = Report(procs[p].op.cmd, r.result)
          ELSE /\ procs' = [procs EXCEPT ![p] = [@ EXCEPT !.pc = "failed"]]
               /\ last' = Report(procs[p].op.cmd, r.result)
               /\ UNCHANGED data
    /\ UNCHANGED <<clock, minutesLeft, shown>>

StoreNext ==
    \/ \E p \in Procs : Load(p)
    \/ \E p \in Procs : Save(p)
    \/ Tick

SpecStore == StoreInit /\ [][StoreNext]_vars

-----------------------------------------------------------------------------
(* A command's first step: loadTasks on tasks.yaml as it is found *)

\* The buckets a found file holds for a date it has a key for.
FoundBuckets == {<<>>} \cup {<<encodeTask(t)>> : t \in ShownTasks}

\* The files found: none, an unreadable one, and files with a key for some of
\* the dates.
FoundFiles ==
    {FileOf("missing", NoBytes), FileOf("unreadable", NoBytes)}
    \cup {FileOf("present", b) : b \in UNION {[K -> FoundBuckets] : K \in SUBSET {FirstDay, FirstDay + 1}}}

LoadCmd(state) ==
    CASE state = "missing" -> "loadTasks, no file"
      [] state = "unreadable" -> "loadTasks, unreadable file"
      [] OTHER -> "loadTasks"

Loaded(cmd) == cmd \in {LoadCmd(state) : state \in FileStates}

\* data, err := loadTasks()
LoadTasks ==
    \E file \in FoundFiles :
        LET r == loadTasks(file)
        IN Run(LoadCmd(file.state), [data |-> r.data,
                                     result |-> IF r.err = "" THEN "ok" ELSE r.err])

\* if err != nil { return err }: the command goes on only after a load
\* without error.
Proceed ==
    /\ Loaded(last.cmd)
    /\ last.result = "ok"
    /\ \/ Finish
       \/ Stop
       \/ Current

LoadNext ==
    \/ LoadTasks
    \/ Proceed

SpecLoad == Init /\ [][LoadNext]_vars

----------------------------------------------------------------------------
(* Properties *)

Today == data[todayKey(clock)]
Indices(tasks) == 0 .. (Len(tasks) - 1)
Floor(a, b) == a \div b
Saved == {"ok", "warned"}
SettlingStatuses == {"done", "cancelled", "pending"}

\* C1: in every persisted state every task of every day bucket has
\* startedAtEpoch != 0 if and only if its status is started.
TimerIffStarted ==
    \A d \in Days : \A i \in Indices(data[d]) :
        (At(data[d], i).StartedAt # 0) <=> (At(data[d], i).Status = "started")

\* C2: in every persisted state each day bucket holds at most one task
\* whose status is started.
AtMostOneStarted ==
    \A d \in Days : Cardinality(IndicesWith(data[d], "started")) <= 1

LaterInstants == {clock + k * TickSeconds : k \in 0 .. MaxTicks}

\* C4: Transition(i, done) called twice in a row on the same task, at any two
\* times, leaves actualMinutes after the second call as it was after the
\* first, and the task is done with startedAtEpoch 0 after both.
DoneTwiceSettlesOnce ==
    \A i \in Indices(Today), t2 \in LaterInstants :
        LET r1 == updateStatus(data, clock, i, "done")
            u1 == At(r1.data[todayKey(clock)], i)
            r2 == updateStatus(r1.data, t2, i, "done")
            u2 == At(r2.data[todayKey(clock)], i)
        IN /\ r1.err = "" /\ r2.err = ""
           /\ u2.Actual = u1.Actual
           /\ u1.Status = "done" /\ u1.StartedAt = 0
           /\ u2.Status = "done" /\ u2.StartedAt = 0

\* A task whose timer has run for a minute or more, where a first call
\* settles that minute and a second one must not.
DoneTwiceSettlesOnceWitness ==
    \E i \in Indices(Today) :
        /\ At(Today, i).Status = "started"
        /\ At(Today, i).StartedAt # 0
        /\ clock - At(Today, i).StartedAt >= 60
        /\ At(updateStatus(data, clock, i, "done").data[todayKey(clock)], i).Actual
               = At(Today, i).Actual + 1

\* C5: StartNext on a day that has a started task reports that a task is
\* already running and leaves every task and the store as they were,
\* whatever pending tasks the day holds.
StartNextRefusesWhenRunning ==
    IndicesWith(Today, "started") # {} =>
        \A choices \in ChoiceInputs :
            startNextPendingTask(data, clock, choices)
                = Ended(data, "A task is already started.")

\* next was refused on a day with a started and a pending task.
StartNextRefusesWitness ==
    /\ last = Report("next", "A task is already started.")
    /\ IndicesWith(Today, "started") # {}
    /\ IndicesWith(Today, "pending") # {}

\* C6: for every title and estimate that Create accepts, the task created is
\* pending with actualMinutes 0 and startedAtEpoch 0 and is the last element
\* of the addressed day's bucket, after the tasks that were there.
CreateAppendsPending ==
    \A tommorow \in BOOLEAN, titleIn \in TitleInputs, estIn \in EstimateInputs :
        LET day == dayKey(clock, tommorow)
            r == addTaskInteractive(data, clock, tommorow, titleIn, estIn)
            made == r.data[day][Len(r.data[day])]
        IN r.result \in Saved =>
               /\ Len(r.data[day]) = Len(data[day]) + 1
               /\ SubSeq(r.data[day], 1, Len(data[day])) = data[day]
               /\ made.Status = "pending"
               /\ made.Actual = 0
               /\ made.StartedAt = 0
               /\ made.Title = titleIn

\* add has appended a second task to today's bucket.
CreateAppendsWitness ==
    /\ last.cmd = "add" /\ last.result \in Saved
    /\ Len(Today) = 2
    /\ At(Today, 1) = Task(Word("a"), 300, 0, "pending", 0)
    /\ At(Today, 0).Status # "pending"

\* The estimate of an attempt that types one entry at the estimate prompt.
IsInvalidEstimate(entry) == entry.kind # "num" \/ entry.n <= 0

\* C7: Create fails with a validation error and adds no task whenever the
\* title is empty or the estimate is not positive.
CreateRejectsInvalid ==
    \A tommorow \in BOOLEAN, titleIn \in TitleInputs, estIn \in EstimateInputs :
        LET r == addTaskInteractive(data, clock, tommorow, titleIn, estIn)
        IN (Len(estIn) = 1 /\ titleIn.kind = "word" /\ estIn[1].kind # "key"
            /\ (titleIn = Word("") \/ IsInvalidEstimate(estIn[1]))) =>
               /\ r.data = data
               /\ r.result \notin Saved \cup {"aborted"} \cup Notices

\* C8: Transition(index, status) with index < 0 or index >= the length of the
\* day's sequence fails with the index error and leaves the store unchanged.
TransitionChecksIndex ==
    \A index \in {-2, -1, Len(Today), Len(Today) + 1}, status \in AnyStatus :
        updateStatus(data, clock, index, status)
            = [data |-> data, err |-> "invalid task index"]

\* updateStatus has refused an index on a day that holds tasks.
TransitionChecksIndexWitness ==
    /\ last = Report("updateStatus", "invalid task index")
    /\ Len(Today) = MaxTasks

\* C9: deleting the task at index i of an n-task bucket leaves n-1 tasks: those
\* before i keep their index, those after i move down by one, every remaining
\* task and every other bucket is unchanged, and nothing is settled.
DeleteShiftsDown ==
    \A i \in Indices(Today) :
        LET r == deleteTaskInteractive(data, clock, Numeral(i))
            left == r.data[todayKey(clock)]
        IN /\ r.result = "ok"
           /\ Len(left) = Len(Today) - 1
           /\ \A k \in Indices(Today) :
                  /\ k < i => At(left, k) = At(Today, k)
                  /\ k > i => At(left, k - 1) = At(Today, k)
           /\ \A d \in Days \ {todayKey(clock)} : r.data[d] = data[d]

\* delete has removed a task and left a running one, its timer untouched,
\* while time has passed.
DeleteShiftsDownWitness ==
    /\ last = Report("delete", "ok")
    /\ Len(Today) = 1
    /\ At(Today, 0).Status = "started"
    /\ At(Today, 0).StartedAt = StartClock
    /\ At(Today, 0).Actual = 0
    /\ clock > StartClock

TimeOfDay == clock - todayKey(clock) * SecondsPerDay

\* C10: RemainingMinutes(now) is 480 before 08:30, 0 after 17:30, the whole
\* minutes until 12:30 plus 240 in [08:30, 12:30), 240 in [12:30, 13:30) and
\* the whole minutes until 17:30 in [13:30, 17:30]; 08:00 gives 480, 12:00
\* gives 270, 13:00 gives 240, 15:00 gives 150 and 18:00 gives 0.
RemainingMinutesByPeriod ==
    last.cmd = "remainingMinutesToday" =>
        LET t == TimeOfDay
        IN /\ t < ClockOfDay(8, 30) => minutesLeft = 480
           /\ t > ClockOfDay(17, 30) => minutesLeft = 0
           /\ (ClockOfDay(8, 30) <= t /\ t < ClockOfDay(12, 30)) =>
                  minutesLeft = Floor(ClockOfDay(12, 30) - t, 60) + 240
           /\ (ClockOfDay(12, 30) <= t /\ t < ClockOfDay(13, 30)) => minutesLeft = 240
           /\ (ClockOfDay(13, 30) <= t /\ t <= ClockOfDay(17, 30)) =>
                  minutesLeft = Floor(ClockOfDay(17, 30) - t, 60)
           /\ t = ClockOfDay(8, 0) => minutesLeft = 480
           /\ t = ClockOfDay(12, 0) => minutesLeft = 270
           /\ t = ClockOfDay(13, 0) => minutesLeft = 240
           /\ t = ClockOfDay(15, 0) => minutesLeft = 150
           /\ t = ClockOfDay(18, 0) => minutesLeft = 0

\* The remaining minutes computed at 12:00:30, half a minute rounded away.
RemainingMinutesWitness ==
    /\ last.cmd = "remainingMinutesToday"
    /\ TimeOfDay = ClockOfDay(12, 0) + 30
    /\ minutesLeft = 269

\* The bucket ls or lst has listed.
Listed == data[dayKey(clock, last.cmd = "lst")]
HasListed == last.cmd \in {"ls", "lst"} /\ Listed # <<>>

\* C11: the workload ratio printed is remainingWork / remainingMinutes when
\* remainingMinutes > 0 and exactly 1.0 when remainingMinutes = 0, whatever
\* remainingWork is.
WorkloadRatioByCase ==
    HasListed =>
        /\ shown.minutesLeft > 0 =>
               /\ shown.ratio.den # 0
               /\ shown.ratio.num * shown.minutesLeft
                      = shown.remainingWork * shown.ratio.den
        /\ shown.minutesLeft = 0 => shown.ratio = Ratio(1, 1)

\* ls at 18:00 on a bucket with 100 minutes of work left: the ratio is 1.0.
WorkloadRatioWitness ==
    /\ HasListed
    /\ shown.remainingWork = 100
    /\ shown.minutesLeft = 0
    /\ shown.ratio = Ratio(1, 1)

RECURSIVE SumSeq(_)
SumSeq(q) == IF q = <<>> THEN 0 ELSE Head(q) + SumSeq(Tail(q))
Max(a, b) == IF a >= b THEN a ELSE b

\* C12: the aggregates printed for a bucket are totalEstimated = the sum of
\* the estimates, totalActual = the sum of the actuals, achievedWork = the sum
\* of the estimates of the done tasks, remainingWork = the sum over the tasks
\* neither done nor cancelled of max(0, estimated - actual).
AggregatesAsDefined ==
    HasListed =>
        /\ shown.totalEst = SumSeq([k \in DOMAIN Listed |-> Listed[k].Estimated])
        /\ shown.totalActual = SumSeq([k \in DOMAIN Listed |-> Listed[k].Actual])
        /\ shown.achievedWork =
               SumSeq([k \in DOMAIN Listed |->
                          IF Listed[k].Status = "done" THEN Listed[k].Estimated ELSE 0])
        /\ shown.remainingWork =
               SumSeq([k \in DOMAIN Listed |->
                          IF Listed[k].Status \notin {"done", "cancelled"}
                          THEN Max(0, Listed[k].Estimated - Listed[k].Actual) ELSE 0])

\* The figures of a bucket with a done task and a started task that ran over
\* its estimate.
AggregatesWitness ==
    /\ HasListed
    /\ Len(Listed) = 2
    /\ Listed[1].Status = "done" /\ Listed[1].Estimated = 60
    /\ Listed[2].Status = "started" /\ Listed[2].Actual > Listed[2].Estimated
    /\ shown.achievedWork = 60
    /\ shown.remainingWork = 0

\* C13: in every persisted state every task has a non-empty title, a
\* positive estimate and a non-negative actual.
FieldsValid ==
    \A d \in Days : \A i \in Indices(data[d]) :
        /\ At(data[d], i).Title # Word("")
        /\ At(data[d], i).Estimated > 0
        /\ At(data[d], i).Actual >= 0

\* No task of the store before has a larger actual than it has after, the
\* task at index k of day d before being looked for at index At(place[d], k)
\* after.
NoActualLess(before, after, place) ==
    \A d \in Days : \A k \in Indices(before[d]) :
        At(place[d], k) >= 0 =>
            At(after[d], At(place[d], k)).Actual >= At(before[d], k).Actual

\* Every task stays at its index.
SamePlace == [d \in Days |-> [k \in 1 .. Len(data[d]) |-> k - 1]]
\* The task at index i of today's bucket goes (-1), the later ones move down.
PlaceAfterDelete(i) ==
    [SamePlace EXCEPT ![todayKey(clock)] =
        [k \in 1 .. Len(Today) |->
            IF k - 1 < i THEN k - 1 ELSE IF k - 1 = i THEN -1 ELSE k - 2]]

\* C14: no add, addt, status, next, finish, stop or delete lowers the actual
\* minutes of a task that stays in the store; only an edit in ls / lst can.
ActualNeverDecreases ==
    /\ \A tommorow \in BOOLEAN, titleIn \in TitleInputs, estIn \in EstimateInputs :
           NoActualLess(data, addTaskInteractive(data, clock, tommorow, titleIn, estIn).data,
                        SamePlace)
    /\ \A indexIn \in SelectInputs(Today), statusIn \in StatusInputs :
           NoActualLess(data, selectTaskAndSetStatus(data, clock, indexIn, statusIn).data,
                        SamePlace)
    /\ \A choices \in ChoiceInputs :
           NoActualLess(data, startNextPendingTask(data, clock, choices).data, SamePlace)
    /\ NoActualLess(data, finishCurrentTask(data, clock).data, SamePlace)
    /\ NoActualLess(data, stopCurrentTask(data, clock).data, SamePlace)
    /\ \A i \in Indices(Today) :
           NoActualLess(data, deleteTaskInteractive(data, clock, Numeral(i)).data,
                        PlaceAfterDelete(i))

\* A task that worked a minute, was stopped, and has been started again: a
\* settle now must keep the minute.
ActualNeverDecreasesWitness ==
    /\ last.cmd \in {"status", "next"} /\ last.result = "ok"
    /\ \E i \in Indices(Today) :
           /\ At(Today, i).Actual = 1
           /\ At(Today, i).Status = "started"
           /\ At(Today, i).StartedAt = clock

\* A round of the edit loop left at one of its prompts.
IsAbortedRound(in) ==
    \E k \in 1 .. 4 : in[k] = KeyError("interrupt") \/ (k < 4 /\ in[k] = Word("q"))

\* Rounds in which fields were retyped before the round was left.
RetypedRounds ==
    {<<Word("b"), KeyError("interrupt"), NoInput, NoInput>>,
     <<Word("b"), Numeral(5), Word("q"), NoInput>>,
     <<Word("b"), Numeral(5), Numeral(7), KeyError("interrupt")>>}

\* C15: a command left by an abort (interrupt or q) at any of its prompts
\* returns nil and writes nothing: the store is as it was, with no part of an
\* edit applied.
AbortWritesNothing ==
    /\ \A tommorow \in BOOLEAN, titleIn \in TitleInputs, estIn \in EstimateInputs :
           LET r == addTaskInteractive(data, clock, tommorow, titleIn, estIn)
           IN (IsAbort(promptWithCursor(titleIn, Word("")).err)
               \/ (promptWithCursor(titleIn, Word("")).err = ""
                   /\ IsAbort(ValidatedRun(estIn).err))) =>
                  r = Ended(data, "aborted")
    /\ \A tommorow \in BOOLEAN :
           \A indexIn \in SelectInputs(data[dayKey(clock, tommorow)]) :
               IF indexIn.kind = "key"
               THEN data[dayKey(clock, tommorow)] # <<>> =>
                        listTasksInteractive(data, clock, tommorow, indexIn,
                                             NoInput, NoInput, NoInput, NoInput)
                            = Ended(data, "aborted")
               ELSE \A in \in EditInputs(At(data[dayKey(clock, tommorow)], indexIn.n))
                                 \cup RetypedRounds :
                        IsAbortedRound(in) =>
                            listTasksInteractive(data, clock, tommorow, indexIn,
                                                 in[1], in[2], in[3], in[4])
                                = Ended(data, "aborted")
    /\ \A indexIn \in SelectInputs(Today), statusIn \in StatusInputs :
           (Today # <<>> /\ (indexIn.kind = "key" \/ statusIn.kind = "key")) =>
               selectTaskAndSetStatus(data, clock, indexIn, statusIn)
                   = Ended(data, "aborted")
    /\ \A choices \in ChoiceInputs :
           startNextPendingTask(data, clock, choices).result = "aborted" =>
               startNextPendingTask(data, clock, choices).data = data
    /\ \A indexIn \in SelectInputs(Today) :
           (Today # <<>> /\ indexIn.kind = "key") =>
               deleteTaskInteractive(data, clock, indexIn) = Ended(data, "aborted")

\* ls was left by an abort on a day with a running task, whose edit could
\* have been cut at the status prompt.
AbortWritesNothingWitness ==
    /\ last = Report("ls", "aborted")
    /\ Len(Today) = 2
    /\ At(Today, 0).Status = "started"
    /\ \E in \in RetypedRounds :
           /\ in[4] = KeyError("interrupt")
           /\ listTasksInteractive(data, clock, FALSE, Numeral(0),
                                   in[1], in[2], in[3], in[4]).result = "aborted"

\* The ways a command ends that report no failure: nil after a save, nil
\* after an abort, nil after a notice.
NoFailure == Saved \cup {"aborted"} \cup Notices

\* C16: whenever loading or saving the store fails during add, ls / lst
\* edit, status, next, finish, stop or delete, the command returns an error.
ErrorsReturned ==
    \A fault \in {"read", "write"} :
        /\ \A tommorow \in BOOLEAN, titleIn \in TitleInputs, estIn \in EstimateInputs :
               (fault = "read"
                \/ addTaskInteractive(data, clock, tommorow, titleIn, estIn).result \in Saved)
                   => addUnder(fault, data, clock, tommorow, titleIn, estIn).result
                          \notin NoFailure
        /\ \A tommorow \in BOOLEAN :
               \A indexIn \in SelectInputs(data[dayKey(clock, tommorow)]) \ KeyInputs :
                   \A in \in EditInputs(At(data[dayKey(clock, tommorow)], indexIn.n)) :
                       (fault = "read"
                        \/ listTasksInteractive(data, clock, tommorow, indexIn,
                                                in[1], in[2], in[3], in[4]).result \in Saved)
                           => listUnder(fault, data, clock, tommorow, indexIn,
                                        in[1], in[2], in[3], in[4]).result \notin NoFailure
        /\ \A indexIn \in SelectInputs(Today), statusIn \in StatusInputs :
               (fault = "read"
                \/ selectTaskAndSetStatus(data, clock, indexIn, statusIn).result \in Saved)
                   => statusUnder(fault, data, clock, indexIn, statusIn).result
                          \notin NoFailure
        /\ \A choices \in ChoiceInputs :
               (fault = "read" \/ startNextPendingTask(data, clock, choices).result \in Saved)
                   => nextUnder(fault, data, clock, choices).result \notin NoFailure
        /\ (fault = "read" \/ finishCurrentTask(data, clock).result \in Saved)
               => finishUnder(fault, data, clock).result \notin NoFailure
        /\ (fault = "read" \/ stopCurrentTask(data, clock).result \in Saved)
               => stopUnder(fault, data, clock).result \notin NoFailure
        /\ \A indexIn \in SelectInputs(Today) :
               (fault = "read" \/ deleteTaskInteractive(data, clock, indexIn).result \in Saved)
                   => deleteUnder(fault, data, clock, indexIn).result \notin NoFailure

\* C17: saveTasks followed by loadTasks, with no write in between, returns
\* the tasks saved, field for field and in their order, for every date.
SaveThenLoad ==
    \A p \in Procs :
        procs[p].pc = "saved" =>
            /\ procs[p].order = Writes => data = procs[p].wrote
            /\ \A q \in Procs :
                   (procs[q].pc # "idle" /\ procs[q].seen = procs[p].order)
                       => procs[q].mem = procs[p].wrote

\* An invocation has loaded what another saved: two tasks, one of them
\* running.
SaveThenLoadWitness ==
    \E p, q \in Procs :
        /\ procs[p].pc = "saved" /\ procs[p].order = 1
        /\ procs[q].pc = "loaded" /\ procs[q].seen = 1
        /\ Len(procs[q].mem[FirstDay]) = 2
        /\ procs[q].mem[FirstDay][1].StartedAt # 0
        /\ procs[q].mem = procs[p].wrote

\* C18: with two invocations that each load, modify and save without
\* locking, the store after both is what the one that saved last made of the
\* store it had loaded.
LastWriterWins ==
    \A p \in Procs :
        (procs[p].pc = "saved" /\ procs[p].order = MaxProcs) =>
            /\ data = procs[p].wrote
            /\ procs[p].wrote = Modified(procs[p].op, procs[p].mem, procs[p].at).data

\* Both have saved and the task the first one added is not in the store.
LostUpdate ==
    \E p, q \in Procs :
        /\ procs[p].pc = "saved" /\ procs[p].order = 1 /\ procs[p].op.cmd = "add"
        /\ procs[q].pc = "saved" /\ procs[q].order = 2
        /\ \E k \in 1 .. Len(procs[p].wrote[FirstDay]) :
               procs[p].wrote[FirstDay][k].Title = procs[p].op.title
        /\ \A k \in 1 .. Len(data[FirstDay]) :
               data[FirstDay][k].Title # procs[p].op.title

\* Estimates that bring a day holding 300 minutes to the limit and just over.
LimitEstimates == {<<Numeral(180)>>, <<Numeral(181)>>}

\* C19: when the estimates of the day's tasks plus the new estimate exceed
\* 480, add still appends the task and saves, with a warning; when the sum is
\* at most 480 there is no warning.
OverflowOnlyWarns ==
    \A tommorow \in BOOLEAN, titleIn \in TitleInputs,
       estIn \in EstimateInputs \cup LimitEstimates :
        LET day == dayKey(clock, tommorow)
            r == addTaskInteractive(data, clock, tommorow, titleIn, estIn)
            entered == ValidatedRun(estIn)
            sum == SumSeq([k \in DOMAIN data[day] |-> data[day][k].Estimated])
                      + entered.val.n
        IN (promptWithCursor(titleIn, Word("")).err = "" /\ entered.err = "") =>
               /\ r.data[day] =
                      Append(data[day], Task(titleIn, entered.val.n, 0, "pending", 0))
               /\ \A d \in Days \ {day} : r.data[d] = data[d]
               /\ sum > 480 => r.result = "warned"
               /\ sum <= 480 => r.result = "ok"

\* add has put a second task of 300 minutes on the day, with the warning.
OverflowOnlyWarnsWitness ==
    /\ last = Report("add", "warned")
    /\ Len(Today) = 2
    /\ At(Today, 0).Estimated = 300
    /\ At(Today, 1) = Task(Word("a"), 300, 0, "pending", 0)

\* C20 as stated: updateStatus with any status other than started leaves the
\* task with StartedAt 0.
TransitionAlwaysClearsTimer ==
    \A i \in Indices(Today), st \in AnyStatus \ {"started"} :
        At(updateStatus(data, clock, i, st).data[todayKey(clock)], i).StartedAt = 0

\* C20 amended: updateStatus with done, cancelled or pending leaves the task
\* with StartedAt 0, the time of a timer that ran settled first, whatever the
\* status of the task was; a status that is none of the four is stored as it
\* is and leaves StartedAt and Actual as they were.
TransitionClearsTimer ==
    \A i \in Indices(Today), st \in AnyStatus \ {"started"} :
        LET t == At(Today, i)
            u == At(updateStatus(data, clock, i, st).data[todayKey(clock)], i)
        IN /\ u.Status = st
           /\ st \in SettlingStatuses =>
                  /\ u.StartedAt = 0
                  /\ u.Actual = IF t.StartedAt # 0
                                THEN t.Actual + Floor(clock - t.StartedAt, 60)
                                ELSE t.Actual
           /\ st \notin SettlingStatuses =>
                  /\ u.StartedAt = t.StartedAt
                  /\ u.Actual = t.Actual

\* updateStatus has set a task that ran a minute back to pending: its timer
\* is cleared and the minute settled.
TransitionClearsTimerWitness ==
    /\ last = Report("updateStatus", "ok")
    /\ clock > StartClock
    /\ \E i \in Indices(Today) :
           /\ At(Today, i).Status = "pending"
           /\ At(Today, i).StartedAt = 0
           /\ At(Today, i).Actual = 1

\* Status strings the switch of updateStatus does not name.
UnknownStatuses == {"archived", "", "Done", "blocked"}

\* C21: updateStatus with a status outside pending, started, done, cancelled
\* stores it verbatim and does not settle: the task's Actual and StartedAt,
\* like all the rest of the store, are as they were.
UnknownStatusPassesThrough ==
    \A i \in Indices(Today), st \in UnknownStatuses :
        LET r == updateStatus(data, clock, i, st)
        IN /\ r.err = ""
           /\ r.data = [data EXCEPT ![todayKey(clock)] =
                           [Today EXCEPT ![i + 1] = [At(Today, i) EXCEPT !.Status = st]]]

\* updateStatus has stored "archived" on a task whose timer had run for a
\* minute and more: the timer still runs and nothing was settled.
UnknownStatusWitness ==
    /\ last = Report("updateStatus", "ok")
    /\ \E i \in Indices(Today) :
           /\ At(Today, i).Status = "archived"
           /\ At(Today, i).StartedAt = StartClock
           /\ At(Today, i).Actual = 0
           /\ clock - StartClock >= 60

\* The indices of the pending tasks of a bucket, in sequence order.
PendingSeq(tasks) ==
    SelectSeq([k \in 1 .. Len(tasks) |-> k - 1],
              LAMBDA i : At(tasks, i).Status = "pending")

\* The number of Skip answers the answers begin with.
RECURSIVE LeadingSkips(_)
LeadingSkips(choices) ==
    IF choices # <<>> /\ Head(choices) = Word("Skip")
    THEN 1 + LeadingSkips(Tail(choices)) ELSE 0

\* The store with the task at index i of today's bucket started now.
StartedNow(i) ==
    [data EXCEPT ![todayKey(clock)] =
        [Today EXCEPT ![i + 1] = [@ EXCEPT !.Status = "started", !.StartedAt = clock]]]

\* C22 as stated: with no task started, the only task next can start is the
\* first pending one in sequence order; with no pending task it reports that
\* there is nothing to start and changes nothing.
StartNextOnlyFirstPending ==
    IndicesWith(Today, "started") = {} =>
        \A choices \in ChoiceInputs :
            LET r == startNextPendingTask(data, clock, choices)
                P == PendingSeq(Today)
            IN /\ r.data # data => (P # <<>> /\ r.data = StartedNow(P[1]))
               /\ P = <<>> => r = Ended(data, "No pending tasks to start.")

\* C22 amended: with no task started, next offers the pending tasks one at a
\* time in sequence order, the first one first; it starts the one the first
\* Start answers, each Skip moving to the next pending task; when there is no
\* pending task, or all were skipped, it reports that there is nothing to
\* start and changes nothing; an abort changes nothing.
StartNextOffersInOrder ==
    IndicesWith(Today, "started") = {} =>
        \A choices \in ChoiceInputs :
            LET r == startNextPendingTask(data, clock, choices)
                P == PendingSeq(Today)
                n == LeadingSkips(choices)
            IN IF n >= Len(P)
               THEN r = Ended(data, "No pending tasks to start.")
               ELSE IF n >= Len(choices) THEN r.data = data
               ELSE IF choices[n + 1] = Word("Start")
                    THEN r = Ended(StartedNow(P[n + 1]), "ok")
               ELSE r = Ended(data, "aborted")

\* next has started the second pending task, the first one skipped.
StartNextOffersWitness ==
    /\ last = Report("next", "ok")
    /\ Len(Today) = 2
    /\ At(Today, 0).Status = "pending"
    /\ At(Today, 1).Status = "started"
    /\ At(Today, 1).StartedAt = clock

\* The task t given status st with its running timer, if any, settled at the
\* current instant.
SettledAs(t, st) ==
    [t EXCEPT !.Status = st,
              !.Actual = IF t.StartedAt # 0
                         THEN t.Actual + Floor(clock - t.StartedAt, SecondsPerMinute)
                         ELSE t.Actual,
              !.StartedAt = 0]

\* What finish (st = "done") and stop (st = "pending") must leave behind: the
\* store unchanged when no task of today is started, else the store
\* updateStatus saves for the first started task, that task settled.
SettlesFirstStarted(r, st) ==
    IF \A i \in Indices(Today) : At(Today, i).Status # "started"
    THEN r = Ended(data, "No task is currently started.")
    ELSE \E i \in Indices(Today) :
             /\ At(Today, i).Status = "started"
             /\ \A j \in 0 .. (i - 1) : At(Today, j).Status # "started"
             /\ r.data = updateStatus(data, clock, i, st).data
             /\ r.data = [data EXCEPT ![todayKey(clock)] =
                             [Today EXCEPT ![i + 1] = SettledAs(At(Today, i), st)]]
             /\ r.result = "ok"

\* C23: finish has the effect of updateStatus(i, "done") and stop that of
\* updateStatus(i, "pending") for the first started task i of today's bucket,
\* the elapsed minutes settled; with no started task both leave the store
\* unchanged.
FinishStopAsTransition ==
    /\ SettlesFirstStarted(finishCurrentTask(data, clock), "done")
    /\ SettlesFirstStarted(stopCurrentTask(data, clock), "pending")

\* stop has put a task that ran for a minute back to pending, the minute added.
FinishStopWitness ==
    /\ last = Report("stop", "ok")
    /\ clock > StartClock
    /\ \E i \in Indices(Today) :
           /\ At(Today, i).Status = "pending"
           /\ At(Today, i).Actual = 1
           /\ At(Today, i).StartedAt = 0

\* C24: updateStatus with done, cancelled or pending on a task of today's
\* bucket whose status is not started leaves that task's Actual unchanged.
NotStartedNotSettled ==
    \A i \in Indices(Today), st \in SettlingStatuses :
        At(Today, i).Status # "started" =>
            At(updateStatus(data, clock, i, st).data[todayKey(clock)], i).Actual
                = At(Today, i).Actual

\* C25: for the first task of today with status started, the minutes current
\* shows and the minutes settling adds both equal
\* floor((now - StartedAt) / 60), and so equal each other.
ElapsedShownIsSettled ==
    LET c == currentTask(data, clock)
    IN c.result = "ok" =>
           LET t == At(Today, c.index)
               settled == At(updateStatus(data, clock, c.index, "done")
                                 .data[todayKey(clock)], c.index)
           IN /\ c.elapsed = Floor(clock - t.StartedAt, SecondsPerMinute)
              /\ settled.Actual - t.Actual = Floor(clock - t.StartedAt, SecondsPerMinute)
              /\ c.elapsed = settled.Actual - t.Actual

\* C26: loadTasks returns no error and an empty sequence for every date when
\* tasks.yaml does not exist, no error and an empty sequence for a date the
\* file has no key for, and an error when the file is there but cannot be
\* read; a command that has loaded a missing file acts as on an empty day.
LoadDayByFile ==
    /\ \A file \in FoundFiles :
           LET r == loadTasks(file)
           IN CASE file.state = "missing" ->
                     r.err = "" /\ \A day \in Days : r.data[day] = <<>>
                [] file.state = "unreadable" -> r.err # ""
                [] OTHER ->
                     /\ r.err = ""
                     /\ \A day \in Days \ DOMAIN file.bytes : r.data[day] = <<>>
                     /\ \A day \in DOMAIN file.bytes :
                            Len(r.data[day]) = Len(file.bytes[day])
    /\ last.cmd = LoadCmd("unreadable") => last.result \notin {"", "ok"}
    /\ last.cmd = LoadCmd("missing") =>
           /\ last.result = "ok"
           /\ \A day \in Days : data[day] = <<>>
           /\ finishCurrentTask(data, clock).result = "No task is currently started."
           /\ stopCurrentTask(data, clock).result = "No task is currently started."
           /\ currentTask(data, clock).result = "No task is currently started."
           /\ \A choices \in ChoiceInputs :
                  startNextPendingTask(data, clock, choices)
                      = Ended(data, "No pending tasks to start.")
           /\ \A indexIn \in KeyInputs \cup {Numeral(0)} :
                  /\ deleteTaskInteractive(data, clock, indexIn)
                         = Ended(data, "No tasks to delete.")
                  /\ \A statusIn \in StatusInputs :
                         selectTaskAndSetStatus(data, clock, indexIn, statusIn)
                             = Ended(data, "No tasks available.")
           /\ addTaskInteractive(data, clock, FALSE, Word("a"), <<Numeral(300)>>)
                  = Ended([data EXCEPT ![todayKey(clock)] =
                               <<Task(Word("a"), 300, 0, "pending", 0)>>], "ok")

\* loadTasks has met no file and returned the empty TaskData without error.
LoadDayWitness ==
    /\ last = Report(LoadCmd("missing"), "ok")
    /\ data = NoData

\* C27: updateStatus(i, s), for every status s and every task i of today's
\* bucket, leaves the task's Title and Estimated, every other task of the
\* day, the length and order of the bucket and every other bucket unchanged;
\* with s = "started" it leaves the Actual of every task unchanged.
TransitionFrame ==
    \A i \in Indices(Today), st \in AnyStatus :
        LET r == updateStatus(data, clock, i, st)
            after == r.data[todayKey(clock)]
        IN /\ r.err = ""
           /\ \A day \in Days \ {todayKey(clock)} : r.data[day] = data[day]
           /\ Len(after) = Len(Today)
           /\ \A j \in Indices(Today) \ {i} : At(after, j) = At(Today, j)
           /\ At(after, i).Title = At(Today, i).Title
           /\ At(after, i).Estimated = At(Today, i).Estimated
           /\ st = "started" => At(after, i).Actual = At(Today, i).Actual

\* A task with a settled minute has been started again beside another task:
\* its minute is kept.
TransitionFrameWitness ==
    /\ last = Report("updateStatus", "ok")
    /\ Len(Today) = 2
    /\ clock > StartClock
    /\ \E i \in Indices(Today) :
           /\ At(Today, i).Status = "started"
           /\ At(Today, i).Actual = 1
           /\ At(Today, i).StartedAt = clock

\* The number of started tasks of a bucket.
StartedCount(tasks) == Cardinality(IndicesWith(tasks, "started"))

\* C28: a run of next either leaves the store unchanged or makes exactly one
\* task that was pending started with StartedAt = now, every other task and
\* bucket unchanged; from a state with no started task it never leaves two
\* started tasks.
StartNextChangesOne ==
    \A choices \in ChoiceInputs :
        LET r == startNextPendingTask(data, clock, choices)
            after == r.data[todayKey(clock)]
        IN /\ \/ r.data = data
              \/ \E i \in Indices(Today) :
                     /\ At(Today, i).Status = "pending"
                     /\ r.data = [data EXCEPT ![todayKey(clock)] =
                                     [Today EXCEPT ![i + 1] =
                                         [At(Today, i) EXCEPT !.Status = "started",
                                                              !.StartedAt = clock]]]
           /\ StartedCount(Today) = 0 => StartedCount(after) <= 1

\* next has started the first of two tasks now; the other is still pending.
StartNextChangesOneWitness ==
    /\ last = Report("next", "ok")
    /\ Len(Today) = 2
    /\ At(Today, 0).Status = "started"
    /\ At(Today, 0).StartedAt = clock
    /\ At(Today, 1).Status = "pending"
    /\ At(Today, 1).StartedAt = 0

\* The date of the clock, and the buckets of the dates before it.
DateNow == clock \div SecondsPerDay
PastDays == {day \in Days : day < DateNow}

\* The store d differs from the present one at most in the bucket of key.
OnlyBucket(d, key) == \A day \in Days \ {key} : d[day] = data[day]

\* C29: add, ls, status, next, finish, stop and delete change at most the
\* bucket of the current date, addt and lst at most the bucket of the next
\* date; no command changes the bucket of a past date, so a task left started
\* there stays started with its timer unsettled.
OnlyAddressedBucket ==
    /\ \A tommorow \in BOOLEAN, titleIn \in TitleInputs, estIn \in EstimateInputs :
           OnlyBucket(addTaskInteractive(data, clock, tommorow, titleIn, estIn).data,
                      IF tommorow THEN DateNow + 1 ELSE DateNow)
    /\ \A indexIn \in SelectInputs(data[DateNow]) :
           /\ OnlyBucket(deleteTaskInteractive(data, clock, indexIn).data, DateNow)
           /\ \A statusIn \in StatusInputs :
                  OnlyBucket(selectTaskAndSetStatus(data, clock, indexIn, statusIn).data,
                             DateNow)
    /\ \A choices \in ChoiceInputs :
           OnlyBucket(startNextPendingTask(data, clock, choices).data, DateNow)
    /\ OnlyBucket(finishCurrentTask(data, clock).data, DateNow)
    /\ OnlyBucket(stopCurrentTask(data, clock).data, DateNow)
    /\ \A tommorow \in BOOLEAN :
           LET key == IF tommorow THEN DateNow + 1 ELSE DateNow
           IN \A i \in Indices(data[key]) : \A in \in EditInputs(At(data[key], i)) :
                  OnlyBucket(listTasksInteractive(data, clock, tommorow, Numeral(i),
                                                  in[1], in[2], in[3], in[4]).data,
                             key)
    /\ \A day \in PastDays : \A k \in 1 .. Len(data[day]) :
           data[day][k].Status = "started" /\ data[day][k].StartedAt # 0
               => \A st \in AnyStatus, i \in Indices(data[DateNow]) :
                      updateStatus(data, clock, i, st).data[day][k] = data[day][k]

\* A task started yesterday is still started, its timer running, after finish
\* has run today and found nothing started.
PastBucketWitness ==
    /\ last = Report("finish", "No task is currently started.")
    /\ PastDays # {}
    /\ \E day \in PastDays : \E k \in 1 .. Len(data[day]) :
           /\ data[day][k].Status = "started"
           /\ data[day][k].StartedAt = StartClock
    /\ data[DateNow] # <<>>

\* The instants of the clock's date after the clock: the next second, the
\* next minute and hour, the ends of the periods and the last second.
LaterToday ==
    {t \in {clock + 1, clock + SecondsPerMinute, clock + 60 * SecondsPerMinute}
            \cup {DateNow * SecondsPerDay + tod :
                      tod \in {ClockOfDay(8, 30), ClockOfDay(12, 30), ClockOfDay(13, 30),
                               ClockOfDay(17, 30), ClockOfDay(17, 30) + 1,
                               SecondsPerDay - 1}} :
        t >= clock /\ t \div SecondsPerDay = DateNow}

\* C30: at every second of the day the remaining minutes are an integer from
\* 0 to 480, and they are no higher at any later instant of the same date:
\* not at the next second (so, step by step, at no later second), nor at the
\* period ends, a minute or an hour later.
RemainingMinutesNonIncreasing ==
    last.cmd = "remainingMinutesToday" =>
        /\ minutesLeft \in 0 .. 480
        /\ \A t \in LaterToday : remainingMinutesToday(t) <= minutesLeft

\* The last second of the morning: 240 minutes remain, as one second later.
RemainingMinutesStepWitness ==
    /\ last.cmd = "remainingMinutesToday"
    /\ TimeOfDay = ClockOfDay(12, 29) + 59
    /\ minutesLeft = 240
    /\ remainingMinutesToday(clock + 1) = 240

====
